---- MODULE Spec2Model ----
(***************************************************************************)
(* Crop yield prediction page (src/script.js): the change listener of the  *)
(* crop select, the click handler predict, and the helpers parseNumber,    *)
(* showError and clearErrorAndResult.                                      *)
(*                                                                         *)
(* Texts typed into inputs are sequences of one-character strings.  A JS   *)
(* Number is NaN, +/-Infinity or a finite value; a finite value is a sign  *)
(* and an exact fixed-point decimal magnitude (limbs of four decimal       *)
(* digits, least significant first).  Every literal of the script and      *)
(* every input of the bounded domains is exact in this representation, so  *)
(* sums and products carry no rounding error; magnitudes from              *)
(* Base^(NumLimbs - FracLimbs) on are Infinity.                            *)
(***************************************************************************)
EXTENDS Integers, Sequences, FiniteSets, TLC

(***************************************************************************)
(* JS Number                                                               *)
(***************************************************************************)
Base == 10000
FracLimbs == 6
NumLimbs == 8

NaN == [kind |-> "NaN"]
Infinity(n) == [kind |-> "Infinity", neg |-> n]
Finite(n, m) == [kind |-> "finite", neg |-> n, mag |-> m]
null == [kind |-> "null"]

ZeroMag == [i \in 1..NumLimbs |-> 0]
IsZeroMag(m) == \A i \in 1..Len(m) : m[i] = 0

\* Carry propagation: s holds integers (possibly negative, for a borrow);
\* the result has one limb more than s, the last one being the carry out.
RECURSIVE Propagate(_, _, _)
Propagate(s, i, c) ==
    IF i > Len(s) THEN <<c>>
    ELSE <<(s[i] + c) % Base>> \o Propagate(s, i + 1, (s[i] + c) \div Base)

\* A magnitude of any length cut to NumLimbs limbs; beyond the range of
\* the representation the Number is Infinity.
Fit(n, s) ==
    IF \E i \in (NumLimbs + 1)..Len(s) : s[i] # 0 THEN Infinity(n)
    ELSE Finite(n, SubSeq(s, 1, NumLimbs))

\* -1, 0, 1 as magnitude a is below, equal to, above magnitude b.
RECURSIVE CmpFrom(_, _, _)
CmpFrom(a, b, i) ==
    IF i = 0 THEN 0
    ELSE IF a[i] < b[i] THEN -1
    ELSE IF a[i] > b[i] THEN 1
    ELSE CmpFrom(a, b, i - 1)
CmpMag(a, b) == CmpFrom(a, b, NumLimbs)

AddMag(a, b) == Propagate([i \in 1..NumLimbs |-> a[i] + b[i]], 1, 0)
SubMag(a, b) == Propagate([i \in 1..NumLimbs |-> a[i] - b[i]], 1, 0)

RECURSIVE SumOver(_, _)
SumOver(S, f) ==
    IF S = {} THEN 0
    ELSE LET j == CHOOSE k \in S : TRUE IN f[j] + SumOver(S \ {j}, f)

\* The full product of two magnitudes, with 2 * FracLimbs fraction limbs.
MulMag(a, b) ==
    LET nz == {j \in 1..NumLimbs : b[j] # 0}
        conv == [k \in 1..(2 * NumLimbs - 1) |->
                   LET js == {j \in nz : k + 1 - j \in 1..NumLimbs}
                   IN SumOver(js, [j \in js |-> a[k + 1 - j] * b[j]])]
    IN Propagate(conv, 1, 0)

\* x + y
NumAdd(x, y) ==
    IF x.kind = "NaN" \/ y.kind = "NaN" THEN NaN
    ELSE IF x.kind = "Infinity" /\ y.kind = "Infinity"
         THEN IF x.neg = y.neg THEN x ELSE NaN
    ELSE IF x.kind = "Infinity" THEN x
    ELSE IF y.kind = "Infinity" THEN y
    ELSE IF x.neg = y.neg THEN Fit(x.neg, AddMag(x.mag, y.mag))
    ELSE LET c == CmpMag(x.mag, y.mag) IN
         IF c = 0 THEN Finite(FALSE, ZeroMag)
         ELSE IF c > 0 THEN Fit(x.neg, SubMag(x.mag, y.mag))
         ELSE Fit(y.neg, SubMag(y.mag, x.mag))

\* x * y
NumMul(x, y) ==
    IF x.kind = "NaN" \/ y.kind = "NaN" THEN NaN
    ELSE IF x.kind = "Infinity" \/ y.kind = "Infinity"
         THEN IF (x.kind = "finite" /\ IsZeroMag(x.mag))
                  \/ (y.kind = "finite" /\ IsZeroMag(y.mag))
              THEN NaN
              ELSE Infinity(x.neg # y.neg)
    ELSE LET p == MulMag(x.mag, y.mag)
         IN Fit(x.neg # y.neg, SubSeq(p, FracLimbs + 1, Len(p)))

\* x < y; false when either is NaN, and -0 is not below 0.
NumLess(x, y) ==
    IF x.kind = "NaN" \/ y.kind = "NaN" THEN FALSE
    ELSE IF x.kind = "Infinity" THEN x.neg /\ ~(y.kind = "Infinity" /\ y.neg)
    ELSE IF y.kind = "Infinity" THEN ~y.neg
    ELSE LET c == CmpMag(x.mag, y.mag) IN
         IF x.neg /\ y.neg THEN c > 0
         ELSE IF x.neg THEN ~(IsZeroMag(x.mag) /\ IsZeroMag(y.mag))
         ELSE IF y.neg THEN FALSE
         ELSE c < 0

\* x <= y
NumLessEq(x, y) ==
    IF x.kind = "NaN" \/ y.kind = "NaN" THEN FALSE ELSE ~NumLess(y, x)

\* x / y for a divisor y that is a whole number below Base (the script
\* divides by 100 only).
RECURSIVE DivFrom(_, _, _, _)
DivFrom(m, d, i, r) ==
    IF i = 0 THEN << >>
    ELSE DivFrom(m, d, i - 1, (r * Base + m[i]) % d) \o <<(r * Base + m[i]) \div d>>
NumDiv(x, y) ==
    IF x.kind = "NaN" THEN NaN
    ELSE IF x.kind = "Infinity" THEN Infinity(x.neg # y.neg)
    ELSE Finite(x.neg # y.neg, DivFrom(x.mag, y.mag[FracLimbs + 1], NumLimbs, 0))

\* A whole number 0 <= n < Base * Base as a Number.
FromInt(n) ==
    Finite(FALSE, [i \in 1..NumLimbs |->
                     IF i = FracLimbs + 1 THEN n % Base
                     ELSE IF i = FracLimbs + 2 THEN n \div Base
                     ELSE 0])

\* A decimal literal of the script: sign, whole part, and the fraction
\* digits in groups of four (the last group padded with zeros).
Dec(n, whole, groups) ==
    Finite(n, [i \in 1..NumLimbs |->
                 IF i = FracLimbs + 1 THEN whole % Base
                 ELSE IF i = FracLimbs + 2 THEN whole \div Base
                 ELSE IF i <= FracLimbs /\ FracLimbs + 1 - i <= Len(groups)
                      THEN groups[FracLimbs + 1 - i]
                 ELSE 0])

Half == Dec(FALSE, 0, <<5000>>)
One == FromInt(1)
Trunc(m) == [i \in 1..NumLimbs |-> IF i <= FracLimbs THEN 0 ELSE m[i]]
HasFraction(m) == \E i \in 1..FracLimbs : m[i] # 0

\* Math.round: the nearest whole number, a tie going towards +Infinity;
\* NaN and the infinities are returned as they are.
MathRound(x) ==
    IF x.kind # "finite" THEN x
    ELSE IF ~x.neg
         THEN LET s == NumAdd(x, Half)
              IN IF s.kind = "finite" THEN Finite(FALSE, Trunc(s.mag)) ELSE s
    ELSE IF CmpMag(x.mag, Half.mag) <= 0 THEN Finite(TRUE, ZeroMag)
    ELSE LET d == SubMag(x.mag, Half.mag)
             t == Finite(TRUE, Trunc(d))
         IN IF HasFraction(d) THEN NumAdd(t, Finite(TRUE, One.mag)) ELSE t

(***************************************************************************)
(* parseFloat and Number-to-string                                         *)
(***************************************************************************)
Digits == <<"0", "1", "2", "3", "4", "5", "6", "7", "8", "9">>
IsDigit(c) == \E i \in 1..10 : Digits[i] = c
DigitVal(c) == (CHOOSE i \in 1..10 : Digits[i] = c) - 1
WhiteSpace == {" ", "\t", "\n", "\r", "\f"}
InfinityText == <<"I", "n", "f", "i", "n", "i", "t", "y">>

DropFirst(s, k) == SubSeq(s, k + 1, Len(s))
StartsWith(s, p) == Len(s) >= Len(p) /\ SubSeq(s, 1, Len(p)) = p

RECURSIVE TrimLeft(_)
TrimLeft(s) ==
    IF s # << >> /\ s[1] \in WhiteSpace THEN TrimLeft(Tail(s)) ELSE s

\* The length of the longest prefix of s made of digits.
RECURSIVE DigitRun(_)
DigitRun(s) ==
    IF s # << >> /\ IsDigit(s[1]) THEN 1 + DigitRun(Tail(s)) ELSE 0

RECURSIVE DigitsToInt(_, _)
DigitsToInt(s, acc) ==
    IF s = << >> THEN acc
    ELSE DigitsToInt(Tail(s), IF acc >= Base THEN acc ELSE acc * 10 + DigitVal(s[1]))

\* The value of the exponent part at the head of s (e or E, an optional
\* sign, at least one digit); 0 when s does not start with one.
ExponentDigits(ds) == DigitsToInt(SubSeq(ds, 1, DigitRun(ds)), 0)
SignedExponent(r) ==
    IF r # << >> /\ r[1] \in {"+", "-"}
    THEN (IF r[1] = "-" THEN -1 ELSE 1) * ExponentDigits(Tail(r))
    ELSE ExponentDigits(r)
ExponentPart(s) ==
    IF s = << >> \/ s[1] \notin {"e", "E"} THEN 0 ELSE SignedExponent(Tail(s))

Pow10(k) == IF k = 0 THEN 1 ELSE IF k = 1 THEN 10 ELSE IF k = 2 THEN 100 ELSE 1000

\* The Number with decimal digits ds, the first of which has weight
\* 10^top.  Digits below the last fraction limb are dropped.
DigitsToNumber(n, ds, top) ==
    LET pw(k) == top - (k - 1)
        limbOf(k) == FracLimbs + 1 + (pw(k) \div 4)
        used == {k \in 1..Len(ds) : DigitVal(ds[k]) # 0}
    IN IF \E k \in used : limbOf(k) > NumLimbs THEN Infinity(n)
       ELSE Finite(n, [i \in 1..NumLimbs |->
                LET ks == {k \in used : limbOf(k) = i}
                IN SumOver(ks, [k \in ks |-> DigitVal(ds[k]) * Pow10(pw(k) % 4)])])

\* The digits ds, ni of them before the point, times ten to the exponent
\* that starts rest.
Scaled(n, ds, ni, rest) == DigitsToNumber(n, ds, ni - 1 + ExponentPart(rest))

\* u starts with ni digits, a point and nf digits.
WithFraction(n, u, ni, nf) ==
    IF ni + nf = 0 THEN NaN
    ELSE Scaled(n, SubSeq(u, 1, ni) \o SubSeq(u, ni + 2, ni + 1 + nf), ni,
                DropFirst(u, ni + 1 + nf))

\* u starts with ni digits and no more.
DecimalLiteral(n, u, ni) ==
    IF ni < Len(u) /\ u[ni + 1] = "."
    THEN WithFraction(n, u, ni, DigitRun(DropFirst(u, ni + 1)))
    ELSE IF ni = 0 THEN NaN
    ELSE Scaled(n, SubSeq(u, 1, ni), ni, DropFirst(u, ni))

UnsignedLiteral(n, u) ==
    IF StartsWith(u, InfinityText) THEN Infinity(n)
    ELSE DecimalLiteral(n, u, DigitRun(u))

SignedLiteral(t) ==
    IF t # << >> /\ t[1] \in {"+", "-"} THEN UnsignedLiteral(t[1] = "-", Tail(t))
    ELSE UnsignedLiteral(FALSE, t)

\* parseFloat: leading white space is skipped, then the longest prefix
\* that is a decimal literal is converted and whatever follows it is
\* ignored; NaN when there is no such prefix.
parseFloat(text) == SignedLiteral(TrimLeft(text))

isNaN(x) == x.kind = "NaN"

\* The four decimal digits of a limb, most significant first.
LimbDigits(v) == <<v \div 1000, (v \div 100) % 10, (v \div 10) % 10, v % 10>>

RECURSIVE DropLeadingZeros(_)
DropLeadingZeros(s) ==
    IF Len(s) > 1 /\ s[1] = 0 THEN DropLeadingZeros(Tail(s)) ELSE s
RECURSIVE DropTrailingZeros(_)
DropTrailingZeros(s) ==
    IF s # << >> /\ s[Len(s)] = 0 THEN DropTrailingZeros(SubSeq(s, 1, Len(s) - 1)) ELSE s

RECURSIVE DigitsFrom(_, _, _)
DigitsFrom(m, hi, lo) ==
    IF hi < lo THEN << >> ELSE LimbDigits(m[hi]) \o DigitsFrom(m, hi - 1, lo)

\* Number::toString for the template literal, as a sequence of characters:
\* NaN, Infinity, -Infinity, or the decimal digits without trailing
\* fraction zeros; -0 prints as 0.
NumberToString(x) ==
    IF x.kind = "NaN" THEN <<"N", "a", "N">>
    ELSE IF x.kind = "Infinity" THEN (IF x.neg THEN <<"-">> ELSE << >>) \o InfinityText
    ELSE LET whole == DropLeadingZeros(DigitsFrom(x.mag, NumLimbs, FracLimbs + 1))
             frac == DropTrailingZeros(DigitsFrom(x.mag, FracLimbs, 1))
             str(ds) == [k \in 1..Len(ds) |-> Digits[ds[k] + 1]]
         IN (IF x.neg /\ ~IsZeroMag(x.mag) THEN <<"-">> ELSE << >>)
            \o str(whole)
            \o (IF frac = << >> THEN << >> ELSE <<".">> \o str(frac))

(***************************************************************************)
(* The page                                                                *)
(***************************************************************************)
VARIABLES
    cropValue,          \* cropSelect.value
    inputValue,         \* .value of the numeric inputs, by element id
    managementValue,    \* managementSelect.value
    errorText,          \* errorMsg.textContent
    errorDisplay,       \* errorMsg.style.display
    resultValue,        \* resultInput.value: "" is << >>, a result is the
                        \* three parts of the template literal, in order
    turMaizeDisplay,    \* turMaizeInputs.style.display
    maizeMgmtDisplay,   \* maizeManagement.style.display
    gramDisplay         \* gramInputs.style.display

vars == <<cropValue, inputValue, managementValue, errorText, errorDisplay,
          resultValue, turMaizeDisplay, maizeMgmtDisplay, gramDisplay>>

InputIds == {"tmArea", "tmRainfall", "tmFert",
             "gRainSep", "gRainOct", "gRainNov", "gArea", "gFert"}

\* What predict and the change listener write: the error message element
\* and the result field.
ui == [errorText |-> errorText, errorDisplay |-> errorDisplay,
       resultValue |-> resultValue]

\* return isNaN(val) ? null : val
NullIfNaN(val) == IF isNaN(val) THEN null ELSE val
parseNumber(text) == NullIfNaN(parseFloat(text))

showError(u, msg) ==
    [u EXCEPT !.errorText = msg, !.errorDisplay = "block", !.resultValue = << >>]

\* Mutants: the error message is left as it is; only hidden, its text
\* left; the result is left as it is.
clearErrorAndResult_KeepError(u) == [u EXCEPT !.resultValue = << >>]
clearErrorAndResult_KeepText(u) ==
    [u EXCEPT !.errorDisplay = "none", !.resultValue = << >>]
clearErrorAndResult_KeepResult(u) ==
    [u EXCEPT !.errorDisplay = "none", !.errorText = ""]
clearErrorAndResult(u) ==
    [u EXCEPT !.errorDisplay = "none", !.errorText = "", !.resultValue = << >>]

Zero == FromInt(0)
Hundred == FromInt(100)

\* -3.32843850766629 + 0.00459239788361382 * rain + 4.33370044211268 * area
\*   + 0.0763918341341603 * fert
TurIntercept == Dec(TRUE, 3, <<3284, 3850, 7666, 2900>>)
TurRain == Dec(FALSE, 0, <<45, 9239, 7883, 6138, 2000>>)
TurArea == Dec(FALSE, 4, <<3337, 44, 2112, 6800>>)
TurFert == Dec(FALSE, 0, <<763, 9183, 4134, 1603>>)
TurYield(area, rain, fert) ==
    NumAdd(NumAdd(NumAdd(TurIntercept, NumMul(TurRain, rain)),
                  NumMul(TurArea, area)),
           NumMul(TurFert, fert))

\* -23.81399768 + 0.039441256 * rainM + 13.03528484 * areaM + 0.031329566 * fertM
MaizeIntercept == Dec(TRUE, 23, <<8139, 9768>>)
MaizeRain == Dec(FALSE, 0, <<394, 4125, 6000>>)
MaizeArea == Dec(FALSE, 13, <<352, 8484>>)
MaizeFert == Dec(FALSE, 0, <<313, 2956, 6000>>)
baseMaize(areaM, rainM, fertM) ==
    NumAdd(NumAdd(NumAdd(MaizeIntercept, NumMul(MaizeRain, rainM)),
                  NumMul(MaizeArea, areaM)),
           NumMul(MaizeFert, fertM))

PoorFactor == Dec(FALSE, 0, <<7500>>)
GoodFactor == FromInt(1)
\* Mutant: the factors of the two branches exchanged.
mgmtFactor_Swapped(mgmt) == IF mgmt = "poor" THEN GoodFactor ELSE PoorFactor
mgmtFactor(mgmt) == IF mgmt = "poor" THEN PoorFactor ELSE GoodFactor
MaizeLabel(mgmt) ==
    IF mgmt = "poor" THEN " (Maize, Poor management)"
    ELSE " (Maize, Good management)"
MaizeYield(areaM, rainM, fertM, mgmt) ==
    NumMul(baseMaize(areaM, rainM, fertM), mgmtFactor(mgmt))

\* 57.91029391 + 9.450850118 * areaG + -0.577080551 * rSep + 0.069920447 * rOct
\*   + 0.278021178 * rNov + -0.006839212 * fertG
GramIntercept == Dec(FALSE, 57, <<9102, 9391>>)
GramArea == Dec(FALSE, 9, <<4508, 5011, 8000>>)
GramSep == Dec(TRUE, 0, <<5770, 8055, 1000>>)
GramOct == Dec(FALSE, 0, <<699, 2044, 7000>>)
GramNov == Dec(FALSE, 0, <<2780, 2117, 8000>>)
GramFert == Dec(TRUE, 0, <<68, 3921, 2000>>)
GramYield(areaG, rSep, rOct, rNov, fertG) ==
    NumAdd(NumAdd(NumAdd(NumAdd(NumAdd(GramIntercept, NumMul(GramArea, areaG)),
                                NumMul(GramSep, rSep)),
                         NumMul(GramOct, rOct)),
                  NumMul(GramNov, rNov)),
           NumMul(GramFert, fertG))

\* if (predictedYield < 0) predictedYield = 0
Clamp(predictedYield) ==
    IF NumLess(predictedYield, Zero) THEN Zero ELSE predictedYield

\* Math.round(predictedYield * 100) / 100
Round2(predictedYield) ==
    NumDiv(MathRound(NumMul(predictedYield, Hundred)), Hundred)

\* The final result formatting: clamp, round, write the result field.
writeResult(u, predictedYield, label) ==
    [u EXCEPT !.resultValue =
        <<NumberToString(Round2(Clamp(predictedYield))), " quintals (approx.)", label>>]

\* Mutant: an area of 0 passes (area < 0 for area <= 0).
caseTur_AreaZero(u, area, rain, fert) ==
       IF area = null \/ NumLess(area, Zero)
       THEN showError(u, "Enter a valid positive area for Tur.")
       ELSE IF rain = null \/ NumLess(rain, Zero)
       THEN showError(u, "Enter rainfall (mm) for Tur.")
       ELSE IF fert = null \/ NumLess(fert, Zero)
       THEN showError(u, "Enter fertilizers (kg) for Tur.")
       ELSE writeResult(u, TurYield(area, rain, fert), " (Tur)")
caseTur(u, area, rain, fert) ==
       IF area = null \/ NumLessEq(area, Zero)
       THEN showError(u, "Enter a valid positive area for Tur.")
       ELSE IF rain = null \/ NumLess(rain, Zero)
       THEN showError(u, "Enter rainfall (mm) for Tur.")
       ELSE IF fert = null \/ NumLess(fert, Zero)
       THEN showError(u, "Enter fertilizers (kg) for Tur.")
       ELSE writeResult(u, TurYield(area, rain, fert), " (Tur)")
predictTur(u, in) ==
    caseTur(u, parseNumber(in["tmArea"]), parseNumber(in["tmRainfall"]),
            parseNumber(in["tmFert"]))

\* Mutant: the management check moved before the fertilizer check.
caseMaize_ManagementEarly(u, areaM, rainM, fertM, mgmt) ==
       IF areaM = null \/ NumLessEq(areaM, Zero)
       THEN showError(u, "Enter a valid positive area for Maize.")
       ELSE IF rainM = null \/ NumLess(rainM, Zero)
       THEN showError(u, "Enter rainfall (mm) for Maize.")
       ELSE IF mgmt = ""
       THEN showError(u, "Select quality of management for Maize.")
       ELSE IF fertM = null \/ NumLess(fertM, Zero)
       THEN showError(u, "Enter fertilizers (kg) for Maize.")
       ELSE writeResult(u, MaizeYield(areaM, rainM, fertM, mgmt), MaizeLabel(mgmt))
caseMaize(u, areaM, rainM, fertM, mgmt) ==
       IF areaM = null \/ NumLessEq(areaM, Zero)
       THEN showError(u, "Enter a valid positive area for Maize.")
       ELSE IF rainM = null \/ NumLess(rainM, Zero)
       THEN showError(u, "Enter rainfall (mm) for Maize.")
       ELSE IF fertM = null \/ NumLess(fertM, Zero)
       THEN showError(u, "Enter fertilizers (kg) for Maize.")
       ELSE IF mgmt = ""
       THEN showError(u, "Select quality of management for Maize.")
       ELSE writeResult(u, MaizeYield(areaM, rainM, fertM, mgmt), MaizeLabel(mgmt))
predictMaize(u, in, mgmt) ==
    caseMaize(u, parseNumber(in["tmArea"]), parseNumber(in["tmRainfall"]),
              parseNumber(in["tmFert"]), mgmt)

caseGram(u, rSep, rOct, rNov, areaG, fertG) ==
       IF \/ rSep = null \/ NumLess(rSep, Zero)
          \/ rOct = null \/ NumLess(rOct, Zero)
          \/ rNov = null \/ NumLess(rNov, Zero)
       THEN showError(u, "Enter rainfall for September, October, and November for Gram.")
       ELSE IF areaG = null \/ NumLessEq(areaG, Zero)
       THEN showError(u, "Enter a valid positive area for Gram.")
       ELSE IF fertG = null \/ NumLess(fertG, Zero)
       THEN showError(u, "Enter fertilizers (kg) for Gram.")
       ELSE writeResult(u, GramYield(areaG, rSep, rOct, rNov, fertG), " (Gram)")
predictGram(u, in) ==
    caseGram(u, parseNumber(in["gRainSep"]), parseNumber(in["gRainOct"]),
             parseNumber(in["gRainNov"]), parseNumber(in["gArea"]),
             parseNumber(in["gFert"]))

\* predict(): what it leaves in the error message element and the result
\* field, from what they held (u), the crop, the inputs and the management.
\* Mutant: no check of an empty selection before the switch.
switchCrop_NoEmptyCheck(c, crop, in, mgmt) ==
    IF crop = "tur" THEN predictTur(c, in)
    ELSE IF crop = "maize" THEN predictMaize(c, in, mgmt)
    ELSE IF crop = "gram" THEN predictGram(c, in)
    ELSE showError(c, "No formula defined for this crop.")
switchCrop(c, crop, in, mgmt) ==
    IF crop = "" THEN showError(c, "Please select a crop.")
    ELSE IF crop = "tur" THEN predictTur(c, in)
    ELSE IF crop = "maize" THEN predictMaize(c, in, mgmt)
    ELSE IF crop = "gram" THEN predictGram(c, in)
    ELSE showError(c, "No formula defined for this crop.")
predict(u, crop, in, mgmt) == switchCrop(clearErrorAndResult(u), crop, in, mgmt)

\* The section displays the change listener sets for a crop.
SectionDisplay(crop) ==
    [turMaize |-> IF crop = "tur" \/ crop = "maize" THEN "block" ELSE "none",
     maizeMgmt |-> IF crop = "maize" THEN "block" ELSE "none",
     gram |-> IF crop = "gram" THEN "block" ELSE "none"]

(***************************************************************************)
(* Bounded domains                                                         *)
(***************************************************************************)
\* Whole numbers 0..MaxInt are typed as one digit.
MaxInt == 2
\* In InitInputs at most MaxEdited controls differ from a valid form.
MaxEdited == 2

\* The options of the crop select: none chosen, the three crops, and one
\* identifier the script has no formula for.
CropOptions == {"", "tur", "maize", "gram", "wheat"}
\* The options of the management select, and one value that is neither.
ManagementOptions == {"", "good", "poor", "average"}

IntTexts == {<<Digits[n + 1]>> : n \in 0..MaxInt}
\* Empty, negative with a fraction, a number followed by a unit, and
\* Infinity.
SpecialTexts == {<< >>, <<"-", "0", ".", "5">>, <<"2", ".", "5", "k", "g">>,
                 InfinityText}
Texts == IntTexts \cup SpecialTexts
\* What the user types in the specification Spec.
TypedTexts == {<< >>, <<"1">>}
TypedManagement == {"", "good", "poor"}

(***************************************************************************)
(* Events                                                                  *)
(***************************************************************************)
\* The page as loaded: nothing selected, nothing typed, no inline style.
Init ==
    /\ cropValue = ""
    /\ inputValue = [id \in InputIds |-> << >>]
    /\ managementValue = ""
    /\ errorText = ""
    /\ errorDisplay = ""
    /\ resultValue = << >>
    /\ turMaizeDisplay = ""
    /\ maizeMgmtDisplay = ""
    /\ gramDisplay = ""

\* The user picks another crop: the change listener runs.
CropChange(crop) ==
    /\ crop # cropValue
    /\ cropValue' = crop
    /\ \E u \in {clearErrorAndResult(ui)} :
          /\ errorText' = u.errorText
          /\ errorDisplay' = u.errorDisplay
          /\ resultValue' = u.resultValue
    /\ turMaizeDisplay' = SectionDisplay(crop).turMaize
    /\ maizeMgmtDisplay' = SectionDisplay(crop).maizeMgmt
    /\ gramDisplay' = SectionDisplay(crop).gram
    /\ UNCHANGED <<inputValue, managementValue>>

\* The user clicks the predict button.
Predict ==
    /\ \E u \in {predict(ui, cropValue, inputValue, managementValue)} :
          /\ errorText' = u.errorText
          /\ errorDisplay' = u.errorDisplay
          /\ resultValue' = u.resultValue
    /\ UNCHANGED <<cropValue, inputValue, managementValue,
                   turMaizeDisplay, maizeMgmtDisplay, gramDisplay>>

\* The user types into a numeric input; no listener runs.
TypeInput(id, text) ==
    /\ inputValue[id] # text
    /\ inputValue' = [inputValue EXCEPT ![id] = text]
    /\ UNCHANGED <<cropValue, managementValue, errorText, errorDisplay,
                   resultValue, turMaizeDisplay, maizeMgmtDisplay, gramDisplay>>

\* The user picks a management option; no listener runs.
SelectManagement(mgmt) ==
    /\ mgmt # managementValue
    /\ managementValue' = mgmt
    /\ UNCHANGED <<cropValue, inputValue, errorText, errorDisplay,
                   resultValue, turMaizeDisplay, maizeMgmtDisplay, gramDisplay>>

Next ==
    \/ \E crop \in CropOptions : CropChange(crop)
    \/ Predict
    \/ \E id \in InputIds, text \in TypedTexts : TypeInput(id, text)
    \/ \E mgmt \in TypedManagement : SelectManagement(mgmt)

Spec == Init /\ [][Next]_vars

\* The page after the user has filled the form and picked a crop: every
\* control holds a valid value ("1", good management) except at most
\* MaxEdited of them, which hold any text of Texts (any option of the
\* management select); the change listener has run for the crop.
InitInputs ==
    /\ cropValue \in CropOptions
    /\ \E S \in SUBSET InputIds, mgmt \in ManagementOptions :
          /\ Cardinality(S) + (IF mgmt = "good" THEN 0 ELSE 1) <= MaxEdited
          /\ managementValue = mgmt
          /\ \E f \in [S -> Texts] :
                inputValue = [id \in InputIds |-> IF id \in S THEN f[id] ELSE <<"1">>]
    /\ errorText = ""
    /\ errorDisplay = IF cropValue = "" THEN "" ELSE "none"
    /\ resultValue = << >>
    /\ turMaizeDisplay = IF cropValue = "" THEN "" ELSE SectionDisplay(cropValue).turMaize
    /\ maizeMgmtDisplay = IF cropValue = "" THEN "" ELSE SectionDisplay(cropValue).maizeMgmt
    /\ gramDisplay = IF cropValue = "" THEN "" ELSE SectionDisplay(cropValue).gram

NextInputs ==
    \/ \E crop \in CropOptions : CropChange(crop)
    \/ Predict

SpecInputs == InitInputs /\ [][NextInputs]_vars

(***************************************************************************)
(* Properties                                                              *)
(***************************************************************************)
Crops == {"tur", "maize", "gram"}
AreaId(crop) == IF crop = "gram" THEN "gArea" ELSE "tmArea"
FertId(crop) == IF crop = "gram" THEN "gFert" ELSE "tmFert"
RainIds(crop) ==
    IF crop = "gram" THEN {"gRainSep", "gRainOct", "gRainNov"} ELSE {"tmRainfall"}
RequiredIds(crop) == {AreaId(crop), FertId(crop)} \cup RainIds(crop)

\* -1, 0, 1: the sign of a Number that is not NaN.
SignOf(v) ==
    IF v.kind = "Infinity" THEN (IF v.neg THEN -1 ELSE 1)
    ELSE IF IsZeroMag(v.mag) THEN 0
    ELSE IF v.neg THEN -1 ELSE 1
\* The Number the script reads from an input.
Num(id) == parseFloat(inputValue[id])
Positive(id) == Num(id).kind # "NaN" /\ SignOf(Num(id)) = 1
NonNegative(id) == Num(id).kind # "NaN" /\ SignOf(Num(id)) >= 0
IsZero(id) == Num(id).kind # "NaN" /\ SignOf(Num(id)) = 0
Negative(id) == Num(id).kind # "NaN" /\ SignOf(Num(id)) = -1

\* A step of predict (the crop selection is left as it is).
PredictStep == cropValue' = cropValue /\ Predict

ErrorShown(msg) ==
    errorText = msg /\ errorDisplay = "block" /\ resultValue = << >>
AnyErrorShown ==
    errorText # "" /\ errorDisplay = "block" /\ resultValue = << >>
ResultShown ==
    resultValue # << >> /\ errorDisplay = "none" /\ errorText = ""

\* C1: the error message and the result are never shown together (whenever
\* the error message is displayed the result field is empty), and every
\* predict call ends with exactly one of the two set: a non-empty error
\* message with an empty result, or a non-empty result with the error
\* hidden and empty.
C1_ErrorXorResult ==
    [][/\ errorDisplay' = "block" => resultValue' = << >>
       /\ PredictStep => (AnyErrorShown' # ResultShown')]_vars
\* A predict on a completed Tur form has ended with a result and the error
\* hidden.
C1_Witness ==
    /\ ResultShown
    /\ cropValue = "tur"
    /\ \A id \in RequiredIds("tur") : inputValue[id] = <<"1">>

\* What the error message element and the result field may hold before a
\* predict: the page as loaded, a displayed error, a displayed result.
PriorUis ==
    {[errorText |-> "", errorDisplay |-> "", resultValue |-> << >>],
     [errorText |-> "Please select a crop.", errorDisplay |-> "block",
      resultValue |-> << >>],
     [errorText |-> "", errorDisplay |-> "none",
      resultValue |-> <<<<"0">>, " quintals (approx.)", " (Gram)">>]}

\* C8: the outcome of predict is a function of the crop selection and the
\* field values only: whatever the error message element and the result
\* field hold before the call, predict leaves what it leaves when started
\* from the page as loaded, from a displayed error or from a displayed
\* result.
C8_OutcomeFromInputsOnly ==
    [][PredictStep =>
         \A u0 \in PriorUis :
            ui' = predict(u0, cropValue, inputValue, managementValue)]_vars
\* The error of an earlier predict is displayed while the form has since
\* been completed: the next predict starts from a displayed error.
C8_Witness ==
    /\ cropValue = "maize"
    /\ ErrorShown("Enter rainfall (mm) for Maize.")
    /\ \A id \in RequiredIds("maize") : inputValue[id] = <<"1">>
    /\ managementValue = "poor"

\* The labels predict gives the results of a crop.
LabelsOf(crop) ==
    IF crop = "tur" THEN {" (Tur)"}
    ELSE IF crop = "maize"
         THEN {" (Maize, Good management)", " (Maize, Poor management)"}
    ELSE IF crop = "gram" THEN {" (Gram)"}
    ELSE {}

\* C10: a non-empty result field carries the label of the currently
\* selected crop, because the change listener clears the error message and
\* the result.
C10_ResultLabelMatchesCrop ==
    resultValue # << >> => resultValue[3] \in LabelsOf(cropValue)
\* A Gram result is displayed after results of the other crops could have
\* been: the Tur/Maize inputs are filled too.
C10_Witness ==
    /\ cropValue = "gram"
    /\ ResultShown
    /\ resultValue[3] = " (Gram)"
    /\ \A id \in RequiredIds("tur") : inputValue[id] = <<"1">>

\* C9: with a crop identifier that is not empty and not tur, maize or gram
\* predict reports "No formula defined for this crop.", with the empty
\* identifier it reports "Please select a crop."; the result is left empty
\* whatever the other fields hold.
C9_UnknownAndMissingCrop ==
    [][PredictStep =>
         /\ cropValue = "" => ErrorShown("Please select a crop.")'
         /\ cropValue \notin Crops \cup {""} =>
               ErrorShown("No formula defined for this crop.")']_vars
\* The unknown-crop error is displayed over a form in which a field is
\* empty and another is not entirely a number.
C9_Witness ==
    /\ cropValue = "wheat"
    /\ ErrorShown("No formula defined for this crop.")
    /\ inputValue["tmArea"] = << >>
    /\ inputValue["gFert"] = <<"2", ".", "5", "k", "g">>

ThreeQuarters == Dec(FALSE, 0, <<7500>>)
\* The Maize yield after the clamp, before rounding, for the inputs of the
\* form and a management.
MaizeClamped(mgmt) ==
    Clamp(MaizeYield(Num("tmArea"), Num("tmRainfall"), Num("tmFert"), mgmt))

\* C7: for Maize and every valid area, rainfall and fertilizer, the yield
\* before rounding with Poor management is exactly 0.75 times the one
\* with Good management (the clamp to 0 applying to both or to neither),
\* the labels are " (Maize, Poor management)" and " (Maize, Good
\* management)", and predict writes the rounded yield of the selected
\* management with its label.
C7_PoorIsThreeQuartersOfGood ==
    [][(/\ PredictStep
        /\ cropValue = "maize"
        /\ Positive("tmArea") /\ NonNegative("tmRainfall") /\ NonNegative("tmFert")
        /\ managementValue \in {"good", "poor"})
       => /\ MaizeClamped("poor") = NumMul(ThreeQuarters, MaizeClamped("good"))
          /\ MaizeClamped("poor") = Zero <=> MaizeClamped("good") = Zero
          /\ resultValue' =
                <<NumberToString(Round2(MaizeClamped(managementValue))),
                  " quintals (approx.)",
                  IF managementValue = "poor" THEN " (Maize, Poor management)"
                  ELSE " (Maize, Good management)">>]_vars
\* A Maize result above 0 with Poor management.
C7_Witness ==
    /\ cropValue = "maize"
    /\ managementValue = "poor"
    /\ ResultShown
    /\ resultValue[1] \notin {<<"0">>, InfinityText}
    /\ resultValue[3] = " (Maize, Poor management)"

\* C2 (as claimed): for Maize with valid area, rainfall and fertilizer,
\* predict produces a result only when the management selection is exactly
\* good or poor; for every other value it reports an error and leaves the
\* result empty.
C2_ManagementMustBeGoodOrPoor ==
    [][(/\ PredictStep
        /\ cropValue = "maize"
        /\ Positive("tmArea") /\ NonNegative("tmRainfall") /\ NonNegative("tmFert"))
       => IF managementValue \in {"good", "poor"} THEN ResultShown'
          ELSE AnyErrorShown']_vars

\* The error predict reports: the message of the first check of the
\* sequence that fails, none when all pass.
RECURSIVE FirstFailing(_)
FirstFailing(checks) ==
    IF checks = << >> THEN ""
    ELSE IF ~checks[1].ok THEN checks[1].msg
    ELSE FirstFailing(Tail(checks))
CropName(crop) ==
    IF crop = "tur" THEN "Tur" ELSE IF crop = "maize" THEN "Maize" ELSE "Gram"
AreaCheck(crop) ==
    [ok |-> Positive(AreaId(crop)),
     msg |-> "Enter a valid positive area for " \o CropName(crop) \o "."]
RainCheck(crop) ==
    [ok |-> \A id \in RainIds(crop) : NonNegative(id),
     msg |-> IF crop = "gram"
             THEN "Enter rainfall for September, October, and November for Gram."
             ELSE "Enter rainfall (mm) for " \o CropName(crop) \o "."]
FertCheck(crop) ==
    [ok |-> NonNegative(FertId(crop)),
     msg |-> "Enter fertilizers (kg) for " \o CropName(crop) \o "."]
ManagementCheck(crop) ==
    [ok |-> crop # "maize" \/ managementValue # "",
     msg |-> "Select quality of management for Maize."]

\* C3 (as claimed): for every crop the checks run in the order area,
\* rainfall, fertilizer, then management, and the error reported is that
\* of the first failing check in this order, for Gram as for Tur and Maize.
C3_AreaFirstForEveryCrop ==
    [][PredictStep /\ cropValue \in Crops =>
         errorText' = FirstFailing(<<AreaCheck(cropValue), RainCheck(cropValue),
                                     FertCheck(cropValue), ManagementCheck(cropValue)>>)]_vars
\* C3 (amended): for Tur and Maize the checks run in the order area,
\* rainfall, fertilizer, then (Maize) management; for Gram they run in the
\* order rainfall (the three months together), area, fertilizer; the error
\* reported is that of the first failing check in the crop's order.
C3_FirstFailingCheckReported ==
    [][PredictStep /\ cropValue \in Crops =>
         errorText' = FirstFailing(
            IF cropValue = "gram"
            THEN <<RainCheck(cropValue), AreaCheck(cropValue), FertCheck(cropValue)>>
            ELSE <<AreaCheck(cropValue), RainCheck(cropValue),
                   FertCheck(cropValue), ManagementCheck(cropValue)>>)]_vars
\* Gram with an invalid area and an invalid rainfall: the rainfall error
\* is the one displayed.
C3_Witness ==
    /\ cropValue = "gram"
    /\ ~Positive("gArea")
    /\ ~NonNegative("gRainOct")
    /\ ErrorShown("Enter rainfall for September, October, and November for Gram.")

\* The text is a finite decimal number and nothing else: an optional
\* sign, digits, and at most one point among them.
IsFiniteNumberText(text) ==
    LET body == IF text # << >> /\ text[1] \in {"+", "-"} THEN Tail(text) ELSE text
    IN /\ \E i \in 1..Len(body) : IsDigit(body[i])
       /\ \A i \in 1..Len(body) : IsDigit(body[i]) \/ body[i] = "."
       /\ Cardinality({i \in 1..Len(body) : body[i] = "."}) <= 1

\* C4 (as claimed): when the text of a numeric field the selected crop
\* requires is empty, is not entirely a number, or parses to a non-finite
\* number, predict reports an error and leaves the result empty.
C4_InvalidTextIsRejected ==
    [][(/\ PredictStep
        /\ cropValue \in Crops
        /\ \E id \in RequiredIds(cropValue) : ~IsFiniteNumberText(inputValue[id]))
       => AnyErrorShown']_vars

\* C5 (as claimed): for every valid input of every crop (area > 0, every
\* rainfall >= 0, fertilizer >= 0, for Maize a management selection) the
\* value predict writes to the result field is >= 0.
C5_ResultNeverNegative ==
    [][(/\ PredictStep
        /\ cropValue \in Crops
        /\ Positive(AreaId(cropValue))
        /\ \A id \in RainIds(cropValue) \cup {FertId(cropValue)} : NonNegative(id)
        /\ cropValue = "maize" => managementValue # "")
       => /\ ResultShown'
          /\ parseFloat(resultValue'[1]).kind # "NaN"
          /\ SignOf(parseFloat(resultValue'[1])) >= 0]_vars

====
